---- MODULE Spec2Model ----
(***************************************************************************)
(* A model of pykeystore.py: the interactive shell around keytool/openssl. *)
(* One step of the model is one iteration of the loop `while menu(k) !=    *)
(* 'exit'` of main(): it reads one input line, tokenizes it, dispatches    *)
(* the handler and runs it to completion, including every prompt the       *)
(* handler raises and every external process it spawns.                    *)
(*                                                                         *)
(* Python strings are TLA+ strings; None is the sentinel string None,      *)
(* which no user input of the model can spell.                             *)
(***************************************************************************)
EXTENDS Integers, Sequences, FiniteSets, TLC

(* ------------------------------------------------------------------ *)
(* Bounds of the model                                                  *)
(* ------------------------------------------------------------------ *)

\* The largest number of answers given to one confirmation prompt.
MaxAnswers == 2

\* The largest number of lines entered at the main prompt in one run.
MaxCommands == 2

(* ------------------------------------------------------------------ *)
(* Python values                                                        *)
(* ------------------------------------------------------------------ *)

None == "<None>"
BadUsage == "<BadUsage>"
PyTrue == "<True>"
PyFalse == "<False>"

\* Python truthiness of an optional string: None and '' are false.
Truthy(x) == x # None /\ x # ""

\* What the user does at a blocking read instead of typing a line.
EOF == "<EOF>"
INTR == "<INTR>"

STORETYPE == "jks"

(* ------------------------------------------------------------------ *)
(* Strings, character by character                                      *)
(* ------------------------------------------------------------------ *)

Char(s, i) == SubSeq(s, i, i)

Contains(s, c) == \E i \in 1..Len(s) : Char(s, i) = c

IsSpace(c) == c = " "

RECURSIVE LStrip(_)
LStrip(s) ==
    IF Len(s) > 0 /\ IsSpace(Char(s, 1)) THEN LStrip(Tail(s)) ELSE s

RECURSIVE RStrip(_)
RStrip(s) ==
    IF Len(s) > 0 /\ IsSpace(Char(s, Len(s)))
    THEN RStrip(SubSeq(s, 1, Len(s) - 1)) ELSE s

\* str.strip()
Strip(s) == RStrip(LStrip(s))

Upper == <<"A","B","C","D","E","F","G","H","I","J","K","L","M",
           "N","O","P","Q","R","S","T","U","V","W","X","Y","Z">>
LowerOf == <<"a","b","c","d","e","f","g","h","i","j","k","l","m",
             "n","o","p","q","r","s","t","u","v","w","x","y","z">>

LowerTable == [c \in {Upper[k] : k \in 1..26} |->
                  LowerOf[CHOOSE k \in 1..26 : Upper[k] = c]]

LowerChar(c) == IF c \in DOMAIN LowerTable THEN LowerTable[c] ELSE c

\* str.lower()
RECURSIVE Lower(_)
Lower(s) ==
    IF s = "" THEN "" ELSE LowerChar(Char(s, 1)) \o Lower(Tail(s))

(* ------------------------------------------------------------------ *)
(* shlex.split(line): the POSIX-mode lexer with whitespace_split,       *)
(* no comment characters. The result is [err, toks]; err stands for     *)
(* the ValueError the lexer raises ("No closing quotation", "No escaped *)
(* character").                                                         *)
(*   st  : " " between tokens, "a" in a word, a quote character inside  *)
(*         quotes, "\\" after an escape character                       *)
(*   est : the state an escape returns to                               *)
(* ------------------------------------------------------------------ *)

SQ == "'"
DQ == "\""
BS == "\\"

IsQuote(c) == c = SQ \/ c = DQ

\* read_token's result: an empty unquoted token is None (no token).
Emit(toks, tok, quoted) ==
    IF tok = "" /\ ~quoted THEN toks ELSE Append(toks, tok)

RECURSIVE Lex(_, _, _, _, _, _, _)
Lex(s, i, st, est, tok, quoted, toks) ==
    IF i > Len(s)
    THEN IF IsQuote(st) \/ st = BS
         THEN [err |-> TRUE, toks |-> toks]
         ELSE [err |-> FALSE, toks |-> Emit(toks, tok, quoted)]
    ELSE LET c == Char(s, i) IN
         IF st = " "
         THEN IF IsSpace(c) THEN Lex(s, i + 1, " ", est, tok, quoted, toks)
              ELSE IF c = BS THEN Lex(s, i + 1, BS, "a", tok, quoted, toks)
              ELSE IF IsQuote(c) THEN Lex(s, i + 1, c, est, tok, TRUE, toks)
              ELSE Lex(s, i + 1, "a", est, c, quoted, toks)
         ELSE IF IsQuote(st)
         THEN IF c = st THEN Lex(s, i + 1, "a", est, tok, TRUE, toks)
              ELSE IF c = BS /\ st = DQ
                   THEN Lex(s, i + 1, BS, st, tok, TRUE, toks)
              ELSE Lex(s, i + 1, st, est, tok \o c, TRUE, toks)
         ELSE IF st = BS
         THEN IF IsQuote(est) /\ c # BS /\ c # est
              THEN Lex(s, i + 1, est, est, tok \o BS \o c, quoted, toks)
              ELSE Lex(s, i + 1, est, est, tok \o c, quoted, toks)
         ELSE \* st = "a"
              IF IsSpace(c)
              THEN Lex(s, i + 1, " ", est, "", FALSE, Emit(toks, tok, quoted))
              ELSE IF IsQuote(c) THEN Lex(s, i + 1, c, est, tok, TRUE, toks)
              ELSE IF c = BS THEN Lex(s, i + 1, BS, "a", tok, quoted, toks)
              ELSE Lex(s, i + 1, "a", est, tok \o c, quoted, toks)

(* ------------------------------------------------------------------ *)
(* The input lines of the model                                         *)
(* ------------------------------------------------------------------ *)

\* The lines typed at the main prompt.
Lines ==
    { "", "bogus", "ls \"a",
      "ls", "ls -l x",
      "ll", "ll x",
      "fetch ~/s.jks", "fetch _store.jks", "fetch k.jks", "fetch K.jks", "FETCH K.jks", "fetch",
      "put out.pem", "put",
      "export a", "X 'my key' out.pem", "export \"\"", "export",
      "rm a", "delete ''", "rm",
      "add a c.pem", "add a",
      "rename a b", "rename '' b", "rename a",
      "password", "password x",
      "dl h 0443", "download h 443 out.pem", "dl h https", "dl",
      "help", "h x",
      "quit", "q", " Q ", "^D", "quit now" }

\* The lexer's results on the lines of the model, computed once.
SplitTable == [s \in {Strip(l) : l \in Lines} |-> Lex(s, 1, " ", "a", "", FALSE, <<>>)]

\* shlex.split(s)
ShlexSplit(s) ==
    IF s \in DOMAIN SplitTable THEN SplitTable[s]
    ELSE Lex(s, 1, " ", "a", "", FALSE, <<>>)


(* ------------------------------------------------------------------ *)
(* Formatting                                                           *)
(* ------------------------------------------------------------------ *)

\* The terminal's escape character, written in caret notation.
ESC == "^["

in_green(text) == ESC \o "[92m" \o text \o ESC \o "[0m"

in_red(text) == ESC \o "[91m" \o text \o ESC \o "[0m"

\* The body of repr(s): backslashes doubled, the quote q escaped when esc.
RECURSIVE ReprBody(_, _, _)
ReprBody(s, q, esc) ==
    IF s = "" THEN ""
    ELSE LET c == Char(s, 1) IN
         (IF c = BS THEN BS \o BS
          ELSE IF c = q /\ esc THEN BS \o c
          ELSE c) \o ReprBody(Tail(s), q, esc)

\* repr(s) of a str: double quotes when s holds ' and no ", else single.
Repr(s) ==
    IF Contains(s, SQ) /\ ~Contains(s, DQ)
    THEN DQ \o ReprBody(s, DQ, FALSE) \o DQ
    ELSE SQ \o ReprBody(s, SQ, TRUE) \o SQ

QuotedChars == {" ", DQ, SQ}

arg_item(item) ==
    IF \E i \in 1..Len(item) : SubSeq(item, i, i) \in QuotedChars
    THEN Repr(item) ELSE item

\* ' '.join(map(arg_item, cmd)), from the i-th item on
RECURSIVE JoinArgs(_, _)
JoinArgs(cmd, i) ==
    IF i > Len(cmd) THEN ""
    ELSE IF i = Len(cmd) THEN arg_item(cmd[i])
    ELSE arg_item(cmd[i]) \o " " \o JoinArgs(cmd, i + 1)

RECURSIVE Join(_, _)
Join(items, sep) ==
    IF items = <<>> THEN ""
    ELSE IF Len(items) = 1 THEN items[1]
    ELSE items[1] \o sep \o Join(Tail(items), sep)

Digits == <<"0","1","2","3","4","5","6","7","8","9">>

DigitTable == [c \in {Digits[d] : d \in 1..10} |->
                  (CHOOSE d \in 1..10 : Digits[d] = c) - 1]

IsDigit(c) == c \in DOMAIN DigitTable

DigitVal(c) == DigitTable[c]

RECURSIVE DigitsVal(_, _)
DigitsVal(s, acc) ==
    IF s = "" THEN acc ELSE DigitsVal(Tail(s), 10 * acc + DigitVal(Char(s, 1)))

\* int(s): an optional sign and decimal digits; anything else is ValueError.
ParseInt(s) ==
    LET t == Strip(s)
        neg == Len(t) > 0 /\ Char(t, 1) = "-"
        u == IF Len(t) > 0 /\ (Char(t, 1) = "-" \/ Char(t, 1) = "+")
             THEN Tail(t) ELSE t
    IN  IF u # "" /\ \A i \in 1..Len(u) : IsDigit(Char(u, i))
        THEN [ok |-> TRUE,
              n |-> IF neg THEN 0 - DigitsVal(u, 0) ELSE DigitsVal(u, 0)]
        ELSE [ok |-> FALSE, n |-> 0]

\* str(n) of an int.
IntStr(n) == IF n < 0 THEN "-" \o ToString(0 - n) ELSE ToString(n)

(* ------------------------------------------------------------------ *)
(* What a command does, as a sequence of events                         *)
(* ------------------------------------------------------------------ *)

\* print(msg)
Pr(msg) == [k |-> "print", a |-> "", s |-> msg]

\* getpass(prompt), the user doing `resp`
GetPass(resp) == [k |-> "getpass", a |-> resp, s |-> "Enter keystore password: "]

\* input(prompt), the user doing `resp`
Input(prompt, resp) == [k |-> "input", a |-> resp, s |-> prompt]

\* subprocess.run(argv) ending with return code rc
Spawn(argv, rc) == [k |-> "spawn", argv |-> argv, rc |-> rc, tool |-> argv[1]]

\* a file of the program's directory written, by the program or by a tool
Wrote(who, path) == [k |-> "write", a |-> who, s |-> path]

echo_command(cmd) == <<Pr(in_green(JoinArgs(cmd, 1)))>>

suggest_help == <<Pr("Type \"help\" for instructions.")>>

(* ------------------------------------------------------------------ *)
(* The file system: a function from the paths that exist to contents   *)
(* ------------------------------------------------------------------ *)

Exists(files, p) == p \in DOMAIN files

WriteFile(files, p, c) ==
    [q \in DOMAIN files \cup {p} |-> IF q = p THEN c ELSE files[q]]

HOME == "/home/u"

\* os.path.expanduser, for the current user
expanduser(p) ==
    IF p = "~" \/ (Len(p) > 1 /\ SubSeq(p, 1, 2) = "~/")
    THEN HOME \o Tail(p) ELSE p

\* shutil.copyfile(src, dst): fails (an OSError) when src is missing, when
\* src and dst are the same file, or when the system refuses (ioerr).
CopyFails(files, src, dst, ioerr) == ~Exists(files, src) \/ src = dst \/ ioerr

CopyFile(files, src, dst) == WriteFile(files, dst, files[src])

\* The value following flag in argv, None when there is none.
OptArg(argv, flag) ==
    IF \E i \in 1..(Len(argv) - 1) : argv[i] = flag
    THEN argv[1 + CHOOSE i \in 1..(Len(argv) - 1) : argv[i] = flag]
    ELSE None

PEM == "pem"

\* The file an external tool writes when it succeeds: keytool -exportcert
\* -file F and openssl x509 -out F write the certificate to F.
ToolOutput(argv, rc) ==
    IF rc # 0 THEN None
    ELSE IF argv[1] = "keytool" /\ Len(argv) > 1 /\ argv[2] = "-exportcert"
    THEN OptArg(argv, "-file")
    ELSE IF argv[1] = "openssl" /\ Len(argv) > 1 /\ argv[2] = "x509"
    THEN OptArg(argv, "-out")
    ELSE None

Ran(argv, rc, files, out) ==
    [ret |-> IF rc # 0 THEN PyFalse ELSE PyTrue,
     tr |-> <<Spawn(argv, rc)>>
            \o (IF out # None THEN <<Wrote(argv[1], out)>> ELSE <<>>)
            \o (IF rc # 0
                THEN <<Pr(in_red("Command finished with return code " \o IntStr(rc)))>>
                ELSE <<>>),
     files |-> IF out # None THEN WriteFile(files, out, PEM) ELSE files]

\* execute(args): run the process, report a non-zero return code.
execute(argv, rc, files) == Ran(argv, rc, files, ToolOutput(argv, rc))

(* ------------------------------------------------------------------ *)
(* The credential                                                       *)
(* ------------------------------------------------------------------ *)

pwinput(resp) ==
    IF resp = INTR THEN [val |-> None, tr |-> <<GetPass(resp), Pr("^C")>>]
    ELSE IF resp = EOF THEN [val |-> None, tr |-> <<GetPass(resp), Pr("^D")>>]
    ELSE [val |-> resp, tr |-> <<GetPass(resp)>>]

\* PasswordHolder.args testing `if not self.password` where it tests
\* `if self.password is None`.
Prompted_falsy(p) ==
    [password |-> p.val, cancelled |-> ~Truthy(p.val),
     args |-> IF ~Truthy(p.val) THEN <<>> ELSE <<"-storepass", p.val>>,
     tr |-> p.tr]

\* PasswordHolder.args after the prompt: cancelled stands for the None
\* it returns.
Prompted(p) ==
    [password |-> p.val, cancelled |-> p.val = None,
     args |-> IF p.val = None THEN <<>> ELSE <<"-storepass", p.val>>,
     tr |-> p.tr]

PasswordHolder_args(password, resp) ==
    IF ~Truthy(password) THEN Prompted(pwinput(resp))
    ELSE [password |-> password, cancelled |-> FALSE,
          args |-> <<"-storepass", password>>, tr |-> <<>>]

(* ------------------------------------------------------------------ *)
(* KeyTool: the store handle. A handle is [keystore, alias]; the        *)
(* PasswordHolder it refers to is the one `password` threaded through.  *)
(* ------------------------------------------------------------------ *)

\* The marker of "no store-handle operation ran" / "execute was not reached".
NoOp == "<none>"

\* KeyTool.alias / __getitem__: a new handle on the same store and holder.
KeyTool_alias(tool, alias) == [keystore |-> tool.keystore, alias |-> alias]

\* The end of KeyTool.execute: the command was echoed, pw is what
\* PasswordHolder.args gave.
Executed(said, pw, x) ==
    [ret |-> x.ret, tr |-> said \o pw.tr \o x.tr,
     password |-> pw.password, files |-> x.files]

\* KeyTool.execute without its `if pwargs is None` branch: the process is
\* started whatever the credential prompt gave.
Authenticate_unchecked(command, pw, files, rc) ==
    Executed(echo_command(command), pw,
             execute(command \o pw.args, rc, files))

\* KeyTool.execute echoing the command line with the credential
\* arguments, once it has them.
Authenticate_loud(command, pw, files, rc) ==
    IF pw.cancelled
    THEN [ret |-> None,
          tr |-> pw.tr \o echo_command(command) \o <<Pr("Cancelled.")>>,
          password |-> pw.password, files |-> files]
    ELSE Executed(pw.tr \o echo_command(command \o pw.args),
                  [password |-> pw.password, tr |-> <<>>],
                  execute(command \o pw.args, rc, files))

Authenticate(command, pw, files, rc) ==
    IF pw.cancelled
    THEN [ret |-> None,
          tr |-> echo_command(command) \o pw.tr \o <<Pr("Cancelled.")>>,
          password |-> pw.password, files |-> files]
    ELSE Executed(echo_command(command), pw,
                  execute(command \o pw.args, rc, files))

\* KeyTool.execute(*args); resp answers the credential prompt if one is
\* shown, rc is the return code of keytool if it runs.
KeyTool_execute(kt, password, files, args, resp, rc) ==
    IF ~Truthy(kt.keystore)
    THEN [ret |-> PyFalse, tr |-> <<Pr("No keystore is selected.")>>,
          password |-> password, files |-> files]
    ELSE Authenticate(<<"keytool">> \o args \o <<"-keystore", kt.keystore>>
                        \o (IF Truthy(kt.alias) THEN <<"-alias", kt.alias>> ELSE <<>>),
                      PasswordHolder_args(password, resp), files, rc)

\* What a KeyTool method hands back: its own return value ret, the result
\* execret of the execute it called, the exception exc it raised ("" none).
OpResult(ret, x) ==
    [ret |-> ret, exc |-> "", execret |-> x.ret, tr |-> x.tr,
     password |-> x.password, files |-> x.files]

OpRaised(exc, password, files) ==
    [ret |-> None, exc |-> exc, execret |-> NoOp, tr |-> <<>>,
     password |-> password, files |-> files]

\* require_alias never raising.
NeedsAlias_never(kt) == FALSE

\* KeyTool.require_alias raises ValueError
NeedsAlias(kt) == ~Truthy(kt.alias)

\* KeyTool.list: the result of execute is dropped, the method returns None.
KeyTool_list(kt, password, files, verbose, resp, rc) ==
    OpResult(None,
        KeyTool_execute(kt, password, files,
            IF verbose THEN <<"-list", "-v">> ELSE <<"-list">>, resp, rc))

KeyTool_rename(kt, password, files, new_alias, resp, rc) ==
    IF NeedsAlias(kt) THEN OpRaised("ValueError", password, files)
    ELSE OpResult(None,
        KeyTool_execute(kt, password, files,
            <<"-changealias", "-destalias", new_alias>>, resp, rc))

KeyTool_delitem(tool, password, files, alias, resp, rc) ==
    OpResult(None,
        KeyTool_execute(KeyTool_alias(tool, alias), password, files,
            <<"-delete">>, resp, rc))

KeyTool_setitem(tool, password, files, alias, filename, resp, rc) ==
    OpResult(None,
        KeyTool_execute(KeyTool_alias(tool, alias), password, files,
            <<"-import", "-file", filename, "-storetype", STORETYPE>>, resp, rc))

KeyTool_export(kt, password, files, filename, resp, rc) ==
    IF NeedsAlias(kt) THEN OpRaised("ValueError", password, files)
    ELSE OpResult(None,
        KeyTool_execute(kt, password, files,
            IF Truthy(filename)
            THEN <<"-exportcert", "-rfc", "-file", filename>>
            ELSE <<"-exportcert", "-rfc">>, resp, rc))

(* ------------------------------------------------------------------ *)
(* Confirmation prompts                                                 *)
(* ------------------------------------------------------------------ *)

\* confirm(message): answers are what the user does at the successive
\* '>> ' prompts. EOFError and KeyboardInterrupt of input() are not caught.
RECURSIVE ConfirmLoop(_, _, _)
ConfirmLoop(answers, i, tr) ==
    IF i > Len(answers)
    THEN [val |-> FALSE, exc |-> "EOFError", tr |-> tr \o <<Input(">> ", EOF)>>]
    ELSE LET a == answers[i]
             t == tr \o <<Input(">> ", a)>>
             line == Lower(Strip(a))
         IN  IF a = EOF THEN [val |-> FALSE, exc |-> "EOFError", tr |-> t]
             ELSE IF a = INTR THEN [val |-> FALSE, exc |-> "KeyboardInterrupt", tr |-> t]
             ELSE IF line \in {"y", "yes"} THEN [val |-> TRUE, exc |-> "", tr |-> t]
             ELSE IF line \in {"n", "no"} THEN [val |-> FALSE, exc |-> "", tr |-> t]
             ELSE ConfirmLoop(answers, i + 1, t \o <<Pr("Please enter y or n.")>>)

confirm(message, answers) ==
    ConfirmLoop(answers, 1, IF message # None THEN <<Pr(message)>> ELSE <<>>)

Asked(said, c) == [val |-> c.val, exc |-> c.exc, tr |-> said \o c.tr]

\* confirm_overwrite without its question: every file may be written.
confirm_overwrite_unasked(files, filename, answers) ==
    [val |-> TRUE, exc |-> "", tr |-> <<>>]

confirm_overwrite(files, filename, answers) ==
    IF ~Exists(files, filename)
    THEN [val |-> TRUE, exc |-> "", tr |-> <<>>]
    ELSE Asked(<<Pr("File exists: " \o Repr(filename))>>,
               confirm("Overwrite?", answers))

(* ------------------------------------------------------------------ *)
(* The command handlers. st is [keystore, alias, password, files]: the  *)
(* main KeyTool, its PasswordHolder and the file system. A handler's     *)
(* outcome is                                                           *)
(*   ret      its return value                                          *)
(*   exc      the exception that left it uncaught ("" for none)         *)
(*   tr       what happened, in order                                   *)
(*   keystore, alias, password, files   the state it leaves             *)
(*   op, opret, execret   the KeyTool method it called, what that       *)
(*            method returned and what KeyTool.execute returned to it   *)
(* ------------------------------------------------------------------ *)

Tool(st) == [keystore |-> st.keystore, alias |-> st.alias]

Outcome(st, ret, tr) ==
    [ret |-> ret, exc |-> "", tr |-> tr, keystore |-> st.keystore,
     alias |-> st.alias, password |-> st.password, files |-> st.files,
     op |-> NoOp, opret |-> None, execret |-> NoOp]

Raised(st, exc, tr) == [Outcome(st, None, tr) EXCEPT !.exc = exc]

\* The handler ran KeyTool method `name` with outcome o after doing pre;
\* it returns what the method returned when `passes`, else None.
AfterOp(st, name, o, pre, passes) ==
    [ret |-> IF o.exc = "" /\ passes THEN o.ret ELSE None,
     exc |-> o.exc, tr |-> pre \o o.tr,
     keystore |-> st.keystore, alias |-> st.alias,
     password |-> o.password, files |-> o.files,
     op |-> name, opret |-> o.ret, execret |-> o.execret]

WORKINGFILE == "_store.jks"

\* fetch_cmd without `tool.keystore = WORKINGFILE`.
fetch_cmd_unselected(st, args, ioerr) ==
    IF Len(args) # 1 THEN Outcome(st, BadUsage, <<>>)
    ELSE IF CopyFails(st.files, expanduser(args[1]), WORKINGFILE, ioerr)
    THEN Outcome(st, PyFalse, <<Pr(in_red("Command failed"))>>)
    ELSE [Outcome(st, PyTrue, <<Wrote("copyfile", WORKINGFILE)>>)
             EXCEPT !.files = CopyFile(st.files, expanduser(args[1]), WORKINGFILE)]

\* fetch_cmd with `tool.keystore = workingfile` before the copy.
fetch_cmd_eager(st, args, ioerr) ==
    IF Len(args) # 1 THEN Outcome(st, BadUsage, <<>>)
    ELSE IF CopyFails(st.files, expanduser(args[1]), WORKINGFILE, ioerr)
    THEN [Outcome(st, PyFalse, <<Pr(in_red("Command failed"))>>)
             EXCEPT !.keystore = WORKINGFILE]
    ELSE [Outcome(st, PyTrue, <<Wrote("copyfile", WORKINGFILE)>>)
             EXCEPT !.keystore = WORKINGFILE,
                    !.files = CopyFile(st.files, expanduser(args[1]), WORKINGFILE)]

fetch_cmd(st, args, ioerr) ==
    IF Len(args) # 1 THEN Outcome(st, BadUsage, <<>>)
    ELSE LET path == expanduser(args[1])
             said == <<Pr(in_green("copyfile(" \o Repr(path) \o ", "
                                   \o Repr(WORKINGFILE) \o ")"))>>
         IN  IF CopyFails(st.files, path, WORKINGFILE, ioerr)
             THEN Outcome(st, PyFalse,
                      said \o <<Pr("Traceback (most recent call last):"),
                                Pr(in_red("Command failed"))>>)
             ELSE [Outcome(st, PyTrue, said \o <<Wrote("copyfile", WORKINGFILE)>>)
                      EXCEPT !.keystore = WORKINGFILE,
                             !.files = CopyFile(st.files, path, WORKINGFILE)]

put_cmd(st, args, ioerr) ==
    IF Len(args) # 1 THEN Outcome(st, BadUsage, <<>>)
    ELSE IF ~Truthy(st.keystore)
    THEN Outcome(st, None, <<Pr("No keystore is selected.")>>)
    ELSE LET path == expanduser(args[1])
             said == <<Pr(in_green("copyfile(" \o Repr(st.keystore) \o ", "
                                   \o Repr(path) \o ")"))>>
         IN  IF CopyFails(st.files, st.keystore, path, ioerr)
             THEN Outcome(st, PyFalse,
                      said \o <<Pr("Traceback (most recent call last):"),
                                Pr(in_red("Command failed"))>>)
             ELSE [Outcome(st, PyTrue, said \o <<Wrote("copyfile", path)>>)
                      EXCEPT !.files = CopyFile(st.files, st.keystore, path)]

list_cmd(st, args, resp, rc) ==
    IF args = <<>>
    THEN AfterOp(st, "list",
             KeyTool_list(Tool(st), st.password, st.files, FALSE, resp, rc),
             <<>>, TRUE)
    ELSE IF Len(args) = 1 /\ args[1] = "-l"
    THEN AfterOp(st, "list",
             KeyTool_list(Tool(st), st.password, st.files, TRUE, resp, rc),
             <<>>, TRUE)
    ELSE Outcome(st, BadUsage, <<>>)

ll_cmd(st, args, resp, rc) ==
    IF args # <<>> THEN Outcome(st, BadUsage, <<>>)
    ELSE AfterOp(st, "list",
             KeyTool_list(Tool(st), st.password, st.files, TRUE, resp, rc),
             <<>>, FALSE)

\* export_cmd once the overwrite question c is settled.
Export(st, alias, fn, c, resp, rc) ==
    IF c.exc # "" THEN Raised(st, c.exc, c.tr)
    ELSE IF ~c.val THEN Outcome(st, None, c.tr)
    ELSE AfterOp(st, "export",
             KeyTool_export(KeyTool_alias(Tool(st), alias), st.password,
                            st.files, fn, resp, rc),
             c.tr, TRUE)

NoQuestion == [val |-> TRUE, exc |-> "", tr |-> <<>>]

export_cmd(st, args, answers, resp, rc) ==
    IF Len(args) = 1
    THEN Export(st, args[1], None, NoQuestion, resp, rc)
    ELSE IF Len(args) = 2
    THEN Export(st, args[1], args[2],
                IF Truthy(args[2])
                THEN confirm_overwrite(st.files, args[2], answers)
                ELSE NoQuestion,
                resp, rc)
    ELSE Outcome(st, BadUsage, <<>>)

delete_cmd(st, args, resp, rc) ==
    IF Len(args) # 1 THEN Outcome(st, BadUsage, <<>>)
    ELSE AfterOp(st, "delete",
             KeyTool_delitem(Tool(st), st.password, st.files, args[1], resp, rc),
             <<>>, FALSE)

add_cmd(st, args, resp, rc) ==
    IF Len(args) # 2 THEN Outcome(st, BadUsage, <<>>)
    ELSE AfterOp(st, "import",
             KeyTool_setitem(Tool(st), st.password, st.files, args[1], args[2],
                             resp, rc),
             <<>>, FALSE)

rename_cmd(st, args, resp, rc) ==
    IF Len(args) # 2 THEN Outcome(st, BadUsage, <<>>)
    ELSE AfterOp(st, "rename",
             KeyTool_rename(KeyTool_alias(Tool(st), args[1]), st.password,
                            st.files, args[2], resp, rc),
             <<>>, FALSE)

\* password_cmd without the assignment to tool.password.
password_cmd_kept(st, args, resp) ==
    IF args # <<>> THEN Outcome(st, BadUsage, <<>>)
    ELSE Outcome(st, None, pwinput(resp).tr)

password_cmd(st, args, resp) ==
    IF args # <<>> THEN Outcome(st, BadUsage, <<>>)
    ELSE LET p == pwinput(resp) IN
         [Outcome(st, None, p.tr) EXCEPT !.password = p.val]

TEMPFILE == "_temp_file"

\* What openssl s_client leaves on its standard output.
PROBE == "probe"

\* download_cmd, third stage: x509 ran with outcome x2 after t2 happened.
Converted(st, pemfile, t2, x2) ==
    IF x2.ret # PyTrue
    THEN [Outcome(st, None, t2 \o x2.tr) EXCEPT !.files = x2.files]
    ELSE [Outcome(st, None,
              t2 \o x2.tr \o (IF Truthy(pemfile)
                              THEN <<Pr("Output to " \o pemfile)>> ELSE <<>>))
             EXCEPT !.files = x2.files]

\* download_cmd going on to x509 whatever s_client returned.
Probed_regardless(st, pemfile, t1, x1, f1, cmd2, rc2) ==
    Converted(st, pemfile, t1 \o x1.tr \o echo_command(cmd2),
              execute(cmd2, rc2, f1))

\* download_cmd, second stage: s_client ran with outcome x1 after t1
\* happened, leaving the file system f1.
Probed(st, pemfile, t1, x1, f1, cmd2, rc2) ==
    IF x1.ret # PyTrue
    THEN [Outcome(st, None, t1 \o x1.tr) EXCEPT !.files = f1]
    ELSE Converted(st, pemfile, t1 \o x1.tr \o echo_command(cmd2),
                   execute(cmd2, rc2, f1))

\* download_cmd, first stage: cmd was echoed, c is the overwrite question.
Download(st, pemfile, cmd, said, c, ioerr, rc, rc2) ==
    IF c.exc # "" THEN Raised(st, c.exc, said \o c.tr)
    ELSE IF ~c.val THEN Outcome(st, None, said \o c.tr)
    ELSE IF ioerr
    THEN Raised(st, "OSError",
             said \o c.tr
             \o <<Pr((IF Exists(st.files, TEMPFILE) THEN "Overwriting" ELSE "Writing")
                     \o " intermediate file " \o Repr(TEMPFILE))>>)
    ELSE Probed(st, pemfile,
             said \o c.tr
             \o <<Pr((IF Exists(st.files, TEMPFILE) THEN "Overwriting" ELSE "Writing")
                     \o " intermediate file " \o Repr(TEMPFILE)),
                  Wrote("open", TEMPFILE)>>,
             execute(cmd, rc, st.files),
             WriteFile(st.files, TEMPFILE, IF rc = 0 THEN PROBE ELSE ""),
             <<"openssl", "x509", "-outform", "pem">>
                 \o (IF Truthy(pemfile) THEN <<"-out", pemfile>> ELSE <<>>),
             rc2)

Connect(st, host, port, pemfile, cmd, answers, ioerr, rc, rc2) ==
    Download(st, pemfile, cmd, echo_command(cmd),
             IF Truthy(pemfile) THEN confirm_overwrite(st.files, pemfile, answers)
             ELSE NoQuestion,
             ioerr, rc, rc2)

download_cmd(st, args, answers, ioerr, rc, rc2) ==
    IF Len(args) \notin {2, 3} THEN Outcome(st, BadUsage, <<>>)
    ELSE IF ~ParseInt(args[2]).ok THEN Outcome(st, BadUsage, <<>>)
    ELSE Connect(st, args[1], ParseInt(args[2]).n,
                 IF Len(args) = 3 THEN args[3] ELSE None,
                 <<"openssl", "s_client", "-servername", args[1], "-connect",
                   args[1] \o ":" \o IntStr(ParseInt(args[2]).n)>>,
                 answers, ioerr, rc, rc2)

(* ------------------------------------------------------------------ *)
(* The command registry                                                 *)
(* ------------------------------------------------------------------ *)

\* COMMANDS, in the order the @command decorators fill it.
COMMANDS ==
    << [name |-> "fetch",    f |-> "fetch_cmd"],
       [name |-> "put",      f |-> "put_cmd"],
       [name |-> "ls",       f |-> "list_cmd"],
       [name |-> "ll",       f |-> "ll_cmd"],
       [name |-> "x",        f |-> "export_cmd"],
       [name |-> "export",   f |-> "export_cmd"],
       [name |-> "rm",       f |-> "delete_cmd"],
       [name |-> "delete",   f |-> "delete_cmd"],
       [name |-> "add",      f |-> "add_cmd"],
       [name |-> "rename",   f |-> "rename_cmd"],
       [name |-> "password", f |-> "password_cmd"],
       [name |-> "download", f |-> "download_cmd"],
       [name |-> "dl",       f |-> "download_cmd"],
       [name |-> "h",        f |-> "help_cmd"],
       [name |-> "help",     f |-> "help_cmd"],
       [name |-> "q",        f |-> "quit_cmd"],
       [name |-> "quit",     f |-> "quit_cmd"],
       [name |-> "^d",       f |-> "quit_cmd"] >>

\* f.usage
Usage(f) ==
    CASE f = "fetch_cmd"    -> "fetch path/to/store.jks : fetch a key store"
      [] f = "put_cmd"      -> "put path/to/store.jks : copy out a key store"
      [] f = "list_cmd"     -> "ls [-l] : list contents [verbosely]"
      [] f = "ll_cmd"       -> "ll : alias for ls -l"
      [] f = "export_cmd"   -> "export / x ALIAS [FILE] : export alias [to file]"
      [] f = "delete_cmd"   -> "delete / rm ALIAS : delete an alias"
      [] f = "add_cmd"      -> "add ALIAS FILE : import an alias from a file"
      [] f = "rename_cmd"   -> "rename OLD_ALIAS NEW_ALIAS : rename an existing alias"
      [] f = "password_cmd" -> "password : prompt for a new keytool password"
      [] f = "download_cmd" -> "download / dl HOST PORT [FILE]: download certificate [to file]"
      [] f = "help_cmd"     -> "help / h : show help"
      [] f = "quit_cmd"     -> "quit / q : exit program"

\* COMMANDS.get(cmd): the handler registered under cmd, None when none is.
CommandTable ==
    [n \in {COMMANDS[i].name : i \in 1..Len(COMMANDS)} |->
        COMMANDS[CHOOSE i \in 1..Len(COMMANDS) : COMMANDS[i].name = n].f]

CommandsGet(cmd) == IF cmd \in DOMAIN CommandTable THEN CommandTable[cmd] ELSE None

\* uniq letting every item through.
uniq_all(items, seen) == items

\* uniq(items): the items in order, each at its first occurrence only.
RECURSIVE uniq(_, _)
uniq(items, seen) ==
    IF items = <<>> THEN <<>>
    ELSE IF items[1] \in seen THEN uniq(Tail(items), seen)
    ELSE <<items[1]>> \o uniq(Tail(items), seen \cup {items[1]})

HelpUsages ==
    LET fs == uniq([i \in 1..Len(COMMANDS) |-> COMMANDS[i].f], {})
    IN  [i \in 1..Len(fs) |-> Usage(fs[i])]

help_cmd(st, args) ==
    IF args # <<>> THEN Outcome(st, BadUsage, <<>>)
    ELSE Outcome(st, None,
             <<Pr("Commands:"), Pr("  " \o Join(HelpUsages, "\n  ")), Pr("")>>)

EXIT == "exit"

quit_cmd(st, args) ==
    IF args # <<>> THEN Outcome(st, BadUsage, <<>>) ELSE Outcome(st, EXIT, <<>>)

(* ------------------------------------------------------------------ *)
(* Dispatch. e holds what the outside world does during the command:    *)
(*   resp     the user at the credential prompt                         *)
(*   answers  the user at the confirmation prompts                      *)
(*   rc, rc2  the return codes of the first and second process          *)
(*   ioerr    the system refusing a file operation                      *)
(* ------------------------------------------------------------------ *)

Call(f, st, args, e) ==
    CASE f = "fetch_cmd"    -> fetch_cmd(st, args, e.ioerr)
      [] f = "put_cmd"      -> put_cmd(st, args, e.ioerr)
      [] f = "list_cmd"     -> list_cmd(st, args, e.resp, e.rc)
      [] f = "ll_cmd"       -> ll_cmd(st, args, e.resp, e.rc)
      [] f = "export_cmd"   -> export_cmd(st, args, e.answers, e.resp, e.rc)
      [] f = "delete_cmd"   -> delete_cmd(st, args, e.resp, e.rc)
      [] f = "add_cmd"      -> add_cmd(st, args, e.resp, e.rc)
      [] f = "rename_cmd"   -> rename_cmd(st, args, e.resp, e.rc)
      [] f = "password_cmd" -> password_cmd(st, args, e.resp)
      [] f = "download_cmd" -> download_cmd(st, args, e.answers, e.ioerr, e.rc, e.rc2)
      [] f = "help_cmd"     -> help_cmd(st, args)
      [] f = "quit_cmd"     -> quit_cmd(st, args)

\* run_command without its `if r is BadUsage` branch.
Ran_command_silent(f, r) == r

\* The end of run_command: handler f returned r.
Ran_command(f, r) ==
    IF r.exc = "" /\ r.ret = BadUsage
    THEN [r EXCEPT !.tr = @ \o <<Pr("Usage: " \o Usage(f))>>]
    ELSE r

\* run_command taking an unregistered name for quit.
Dispatch_fallback(f, st, args, e) ==
    IF f = None THEN Outcome(st, EXIT, <<>>)
    ELSE Ran_command(f, Call(f, st, args, e))

Dispatch(f, st, args, e) ==
    IF f = None
    THEN Outcome(st, None, <<Pr("Command not recognised.")>> \o suggest_help)
    ELSE Ran_command(f, Call(f, st, args, e))

run_command(st, cmd, args, e) == Dispatch(CommandsGet(cmd), st, args, e)

\* menu(tool): one prompt, one line `inp` (or EOF, or an interrupt).
Prompt(st) == (IF Truthy(st.keystore) THEN st.keystore ELSE "no keystore") \o " > "

\* menu looking the command token up as it was typed.
Chosen_exact(st, asked, choice, cs, e) ==
    IF choice = "" THEN Outcome(st, None, asked \o <<Pr("")>> \o suggest_help)
    ELSE IF cs.err THEN Raised(st, "ValueError", asked \o <<Pr("")>>)
    ELSE [run_command(st, cs.toks[1], Tail(cs.toks), e)
             EXCEPT !.tr = asked \o <<Pr("")>> \o @]

\* menu once the line is read: choice is the stripped line, cs its tokens.
Chosen(st, asked, choice, cs, e) ==
    IF choice = "" THEN Outcome(st, None, asked \o <<Pr("")>> \o suggest_help)
    ELSE IF cs.err THEN Raised(st, "ValueError", asked \o <<Pr("")>>)
    ELSE [run_command(st, Lower(cs.toks[1]), Tail(cs.toks), e)
             EXCEPT !.tr = asked \o <<Pr("")>> \o @]

menu(st, inp, e) ==
    IF inp = EOF THEN Outcome(st, EXIT, <<Input(Prompt(st), inp), Pr("")>>)
    ELSE IF inp = INTR
    THEN Outcome(st, None, <<Input(Prompt(st), inp),
                             Pr(" ^C\n(Use \"quit\" or ^D to quit.)")>>)
    ELSE Chosen(st, <<Input(Prompt(st), inp)>>, Strip(inp),
                ShlexSplit(Strip(inp)), e)

\* The handler an input line reaches: a handler's name, or what menu does
\* with the line itself.
HandlerOf(inp) ==
    LET choice == Strip(inp)
        cs == ShlexSplit(choice)
    IN  IF inp = EOF THEN "<eof>"
        ELSE IF inp = INTR THEN "<interrupt>"
        ELSE IF choice = "" THEN "<empty>"
        ELSE IF cs.err THEN "<lexerror>"
        ELSE IF CommandsGet(Lower(cs.toks[1])) = None THEN "<unknown>"
        ELSE CommandsGet(Lower(cs.toks[1]))

\* The arguments an input line hands its handler.
ArgsOf(inp) ==
    LET cs == ShlexSplit(Strip(inp))
    IN  IF inp \in {EOF, INTR} \/ cs.err \/ cs.toks = <<>> THEN <<>>
        ELSE Tail(cs.toks)

(* ------------------------------------------------------------------ *)
(* The state of the program                                             *)
(* ------------------------------------------------------------------ *)

VARIABLES
    state,     \* "running", "exit" (menu returned 'exit'), "crashed" (an
               \* exception left main())
    keystore,  \* k.keystore: the active store path, None when none
    alias,     \* k.alias: the alias of the main handle
    password,  \* k.password_holder.password: the cached secret
    files,     \* the files that exist, with their contents
    line,      \* what was entered at the last main prompt
    trace,     \* what the last command did, in order
    ret,       \* what the last menu() returned
    exc,       \* the exception that ended the program ("" for none)
    op,        \* the KeyTool method of the last command: [name, ret, execret]
    ncmds      \* the number of lines read at the main prompt so far

vars == <<state, keystore, alias, password, files, line, trace, ret, exc, op,
          ncmds>>

(* ------------------------------------------------------------------ *)
(* The inputs the model draws from                                      *)
(* ------------------------------------------------------------------ *)

\* What the user does at the credential prompt.
Resps == {"", "pw", INTR, EOF}

\* The return codes of an external process.
RCs == {0, 1}

\* What the user does at one confirmation prompt.
Answers == {"y", " YES", "n", "No", "", EOF, INTR}

Decides(a) == a \in {EOF, INTR} \/ Lower(Strip(a)) \in {"y", "yes", "n", "no"}

\* The answers to one confirmation: undecided ones, then one that ends it.
AnswerSeqs ==
    UNION { { as \in [1..n -> Answers] :
                /\ Decides(as[n])
                /\ \A i \in 1..(n - 1) : ~Decides(as[i]) } : n \in 1..MaxAnswers }

\* The outside world doing nothing: end-of-input at every prompt, every
\* process and file operation succeeding.
NoEnv == [resp |-> EOF, rc |-> 0, rc2 |-> 0, answers |-> <<>>, ioerr |-> FALSE]

SOURCE == HOME \o "/s.jks"

\* The file system the program starts in: the store to fetch, the store
\* k.jks in the working directory, and out.pem when `out`.
FileSystem(out) ==
    [p \in {SOURCE, "k.jks"} \cup (IF out THEN {"out.pem"} ELSE {})
       |-> IF p = SOURCE THEN "jksA" ELSE IF p = "k.jks" THEN "jksK" ELSE "old"]

(* ------------------------------------------------------------------ *)
(* main(): KeyTool(args.store, args.password), then the loop            *)
(* ------------------------------------------------------------------ *)

Init ==
    /\ state = "running"
    /\ keystore \in {None, "k.jks"}
    /\ alias = None
    /\ password \in {None, "s3"}
    /\ \E out \in BOOLEAN : files = FileSystem(out)
    /\ line = ""
    /\ trace = <<Pr("")>> \o suggest_help
    /\ ret = None
    /\ exc = ""
    /\ op = [name |-> NoOp, ret |-> None, execret |-> NoOp]
    /\ ncmds = 0

St == [keystore |-> keystore, alias |-> alias, password |-> password,
       files |-> files]

Shows(tr, kind) == \E i \in 1..Len(tr) : tr[i].k = kind

\* The loop of main() goes on, and the run has lines left to enter.
Running == state = "running" /\ ncmds < MaxCommands

\* One iteration of `while menu(k) != 'exit'`: menu did r on input inp.
Loop(inp, r) ==
    /\ Running
    /\ ncmds' = ncmds + 1
    /\ line' = inp
    /\ trace' = r.tr
    /\ ret' = r.ret
    /\ exc' = r.exc
    /\ op' = [name |-> r.op, ret |-> r.opret, execret |-> r.execret]
    /\ keystore' = r.keystore
    /\ password' = r.password
    /\ files' = r.files
    /\ state' = IF r.exc # "" THEN "crashed"
                ELSE IF r.ret = EXIT THEN "exit" ELSE "running"
    /\ alias' = r.alias

Step(inp, e) == Loop(inp, menu(St, inp, e))

\* The lines of the model by the handler they reach, computed once.
HandlerTable == [l \in Lines |-> HandlerOf(l)]

ArgsTable == [l \in Lines |-> ArgsOf(l)]

LinesOf(f) == {l \in Lines : HandlerTable[l] = f}

(* The outside world acts only when the program turns to it. A command is
   first run against NoEnv; an input is drawn from its set only when the
   command, run with the inputs drawn so far, reaches the place that
   consumes it. *)

Count(tr, kind) == Cardinality({i \in 1..Len(tr) : tr[i].k = kind})

\* The command itself writes a file (copyfile, open).
WritesFile(tr) ==
    \E i \in 1..Len(tr) : tr[i].k = "write" /\ tr[i].a \in {"copyfile", "open"}

\* What line l prints, asks and starts under inputs e.
Tr(l, e) == menu(St, l, e).tr

\* The answers to the confirmation, when line l asks for one.
Confirmation(l) ==
    IF Count(Tr(l, NoEnv), "input") > 1
    THEN {[NoEnv EXCEPT !.answers = as] : as \in AnswerSeqs}
    ELSE {NoEnv}

\* Under e the credential prompt (if shown) ends in end-of-input: the
\* user may do anything else at it.
Typed(e, tr) ==
    IF Shows(tr, "getpass")
    THEN {[e EXCEPT !.resp = resp] : resp \in Resps}
    ELSE {e}

Credential(l) == UNION {Typed(e, Tr(l, e)) : e \in Confirmation(l)}

\* Under e every file operation and process succeeds: each of them may
\* fail instead.
Failing(e, tr) ==
    {e} \cup (IF WritesFile(tr) THEN {[e EXCEPT !.ioerr = TRUE]} ELSE {})
        \cup (IF Count(tr, "spawn") >= 1
              THEN {[e EXCEPT !.rc = rc] : rc \in RCs \ {0}} ELSE {})
        \cup (IF Count(tr, "spawn") >= 2
              THEN {[e EXCEPT !.rc2 = rc2] : rc2 \in RCs \ {0}} ELSE {})

Failures(l) == UNION {Failing(e, Tr(l, e)) : e \in Credential(l)}

\* The user enters line l.
Entered(l) == \E e \in Failures(l) : Step(l, e)

\* End-of-input at the main prompt.
MenuEOF ==
    /\ Running
    /\ Step(EOF, NoEnv)

\* An interrupt at the main prompt.
MenuInterrupt ==
    /\ Running
    /\ Step(INTR, NoEnv)

MenuEmpty ==
    /\ Running
    /\ \E l \in LinesOf("<empty>") : Entered(l)

MenuLexError ==
    /\ Running
    /\ \E l \in LinesOf("<lexerror>") : Entered(l)

UnknownCmd ==
    /\ Running
    /\ \E l \in LinesOf("<unknown>") : Entered(l)

FetchCmd ==
    /\ Running
    /\ \E l \in LinesOf("fetch_cmd") : Entered(l)

PutCmd ==
    /\ Running
    /\ \E l \in LinesOf("put_cmd") : Entered(l)

ListCmd ==
    /\ Running
    /\ \E l \in LinesOf("list_cmd") : Entered(l)

LlCmd ==
    /\ Running
    /\ \E l \in LinesOf("ll_cmd") : Entered(l)

ExportCmd ==
    /\ Running
    /\ \E l \in LinesOf("export_cmd") : Entered(l)

DeleteCmd ==
    /\ Running
    /\ \E l \in LinesOf("delete_cmd") : Entered(l)

AddCmd ==
    /\ Running
    /\ \E l \in LinesOf("add_cmd") : Entered(l)

RenameCmd ==
    /\ Running
    /\ \E l \in LinesOf("rename_cmd") : Entered(l)

PasswordCmd ==
    /\ Running
    /\ \E l \in LinesOf("password_cmd") : Entered(l)

DownloadCmd ==
    /\ Running
    /\ \E l \in LinesOf("download_cmd") : Entered(l)

HelpCmd ==
    /\ Running
    /\ \E l \in LinesOf("help_cmd") : Entered(l)

QuitCmd ==
    /\ Running
    /\ \E l \in LinesOf("quit_cmd") : Entered(l)

Next ==
    \/ MenuEOF
    \/ MenuInterrupt
    \/ MenuEmpty
    \/ MenuLexError
    \/ UnknownCmd
    \/ FetchCmd
    \/ PutCmd
    \/ ListCmd
    \/ LlCmd
    \/ ExportCmd
    \/ DeleteCmd
    \/ AddCmd
    \/ RenameCmd
    \/ PasswordCmd
    \/ DownloadCmd
    \/ HelpCmd
    \/ QuitCmd

Spec == Init /\ [][Next]_vars

(* ------------------------------------------------------------------ *)
(* Observations on the last command                                     *)
(* ------------------------------------------------------------------ *)

\* The handler line l reaches ("<none>" for end-of-input and interrupt).
HandlerAt(l) == IF l \in Lines THEN HandlerTable[l] ELSE "<none>"

ArgsAt(l) == IF l \in Lines THEN ArgsTable[l] ELSE <<>>

\* The registered handlers.
Handlers == {COMMANDS[i].f : i \in 1..Len(COMMANDS)}

\* The argument counts each handler accepts.
Arity(f) ==
    CASE f \in {"fetch_cmd", "put_cmd", "delete_cmd"} -> {1}
      [] f \in {"add_cmd", "rename_cmd"} -> {2}
      [] f = "list_cmd" -> {0, 1}
      [] f = "export_cmd" -> {1, 2}
      [] f = "download_cmd" -> {2, 3}
      [] f \in {"ll_cmd", "password_cmd", "help_cmd", "quit_cmd"} -> {0}

\* The handlers of the alias-scoped commands and of the store commands.
AliasCmds == {"export_cmd", "delete_cmd", "add_cmd", "rename_cmd"}

StoreCmds == AliasCmds \cup {"list_cmd", "ll_cmd"}

Printed(tr, msg) == \E i \in 1..Len(tr) : tr[i].k = "print" /\ tr[i].s = msg

NOSTORE == "No keystore is selected."

\* The credential prompt was shown and ended the way `how` lists.
PromptEnded(tr, how) == \E i \in 1..Len(tr) : tr[i].k = "getpass" /\ tr[i].a \in how

\* The secret typed at the credential prompt of tr.
TypedSecret(tr) == tr[CHOOSE i \in 1..Len(tr) : tr[i].k = "getpass"].a

\* Every keytool process of tr was given secret p.
UsesSecret(tr, p) ==
    \A i \in 1..Len(tr) :
        (tr[i].k = "spawn" /\ tr[i].tool = "keytool")
            => OptArg(tr[i].argv, "-storepass") = p

(* ------------------------------------------------------------------ *)
(* Properties                                                           *)
(* ------------------------------------------------------------------ *)

\* C1: an alias-scoped command (export/x, rm/delete, add, rename) entered
\* with a valid argument count while no store is selected spawns no
\* process and prints "No keystore is selected.", whatever the user
\* answers to any prompt.
C1_NoStoreMessage ==
    (/\ HandlerAt(line) \in AliasCmds
     /\ Len(ArgsAt(line)) \in Arity(HandlerAt(line))
     /\ ~Truthy(keystore))
        => /\ ~Shows(trace, "spawn")
           /\ Printed(trace, NOSTORE)

\* C1: `rename '' b` with no store selected: require_alias raises before
\* KeyTool.execute looks at the store, and nothing is printed.
C1_RaisedBeforeMessage ==
    /\ line = "rename '' b"
    /\ ~Truthy(keystore)
    /\ exc = "ValueError"
    /\ ~Printed(trace, NOSTORE)

\* C2: once a store command has shown the credential prompt and the user
\* typed a secret, a following store command shows no prompt and hands
\* every keytool process that secret.
C2_PromptedOnce ==
    [][(/\ HandlerAt(line) \in StoreCmds
        /\ PromptEnded(trace, Resps \ {INTR, EOF})
        /\ HandlerAt(line') \in StoreCmds)
           => /\ ~Shows(trace', "getpass")
              /\ UsesSecret(trace', TypedSecret(trace))]_vars

\* C2: `ls` on a selected store, the user typing the empty secret: the
\* holder keeps '', which `if not self.password` takes for no secret.
C2_EmptySecretCached ==
    /\ line = "ls"
    /\ PromptEnded(trace, {""})
    /\ Shows(trace, "spawn")
    /\ password = ""
    /\ state = "running"

\* C3: a store command whose credential prompt is ended by an interrupt
\* or end-of-input prints "Cancelled.", starts no process and leaves the
\* loop running.
C3_Cancelled ==
    (HandlerAt(line) \in StoreCmds /\ PromptEnded(trace, {INTR, EOF}))
        => /\ Printed(trace, "Cancelled.")
           /\ ~Shows(trace, "spawn")
           /\ state = "running"

\* C3: `rm a` on a selected store, the prompt ended by an interrupt.
C3_CancelledReached ==
    /\ line = "rm a"
    /\ Truthy(keystore)
    /\ PromptEnded(trace, {INTR})
    /\ Printed(trace, "Cancelled.")

\* C4: no error is fatal: whatever is entered and whatever the outside
\* world does, the loop goes on or ends through quit or end-of-input at
\* the main prompt; no exception ends the program.
C4_NoErrorFatal ==
    /\ state \in {"running", "exit"}
    /\ exc = ""
    /\ state = "exit" => (line = EOF \/ HandlerAt(line) = "quit_cmd")

\* C4: `export ""` ends the program with the ValueError of require_alias.
C4_Crashed ==
    /\ line = "export \"\""
    /\ state = "crashed"
    /\ exc = "ValueError"

\* C5: the loop moves to exit on quit, q (or another registered name of
\* the quit command) and on end-of-input at the main prompt, on nothing
\* else; and the loop has ended exactly when the state is exit.
C5_ExitOnlyByQuit ==
    /\ state = "exit" <=> (ncmds > 0 /\ (line = EOF \/ (HandlerAt(line) = "quit_cmd"
                                                        /\ ArgsAt(line) = <<>>)))
    /\ state # "running" <=> state = "exit"

\* C5: the loop ended by the unbalanced quote of `ls "a`, the state not
\* being exit.
C5_EndedWithoutExit ==
    /\ line = "ls \"a"
    /\ state = "crashed"
    /\ ret # EXIT

\* C6: a registered command entered with a number of arguments it does
\* not accept returns BadUsage, and all that is printed for it is the
\* usage string registered for it; no process is started, the store path
\* and the cached secret stay as they were.
C6_BadUsage ==
    [][(/\ HandlerAt(line') \in Handlers
        /\ Len(ArgsAt(line')) \notin Arity(HandlerAt(line')))
           => /\ ret' = BadUsage
              /\ SubSeq(trace', 2, Len(trace'))
                     = <<Pr(""), Pr("Usage: " \o Usage(HandlerAt(line')))>>
              /\ ~Shows(trace', "spawn")
              /\ keystore' = keystore
              /\ password' = password
              /\ files' = files]_vars

\* C6: `add a` (one argument where add takes two) was answered with the
\* usage of add.
C6_BadUsageReached ==
    /\ line = "add a"
    /\ ret = BadUsage
    /\ Printed(trace, "Usage: add ALIAS FILE : import an alias from a file")

\* The return code of the keytool process of tr.
ReturnCode(tr) == tr[CHOOSE i \in 1..Len(tr) : tr[i].k = "spawn"].rc

\* C7: every store-handle operation (list, import, delete, export,
\* rename) returns True when keytool exits with 0, False when it exits
\* with another code or no store is selected, and None when the
\* credential prompt is cancelled.
C7_ReturnsIndicator ==
    (op.name # NoOp /\ exc = "")
        => op.ret = IF ~Truthy(keystore) THEN PyFalse
                    ELSE IF ~Shows(trace, "spawn") THEN None
                    ELSE IF ReturnCode(trace) = 0 THEN PyTrue ELSE PyFalse

\* C7: KeyTool.list returned None to list_cmd although keytool exited
\* with 0 and KeyTool.execute returned True.
C7_ResultDropped ==
    /\ line = "ls"
    /\ op.name = "list"
    /\ Shows(trace, "spawn") /\ ReturnCode(trace) = 0
    /\ op.execret = PyTrue
    /\ op.ret = None

\* The confirmation prompts of tr, and the answer that settled them.
Questions(tr) == {i \in 1..Len(tr) : tr[i].k = "input" /\ tr[i].s = ">> "}

Max(S) == CHOOSE i \in S : \A j \in S : j <= i

Answer(tr) == Lower(Strip(tr[Max(Questions(tr))].a))

\* C8: `export ALIAS FILE` with FILE existing asks for the overwrite
\* before anything else is run; n/no ends the command without the export
\* call, y/yes goes on to the export, and any other answer is followed by
\* the question again, nothing being run.
C8_ExportConfirms ==
    [][(/\ HandlerAt(line') = "export_cmd"
        /\ Len(ArgsAt(line')) = 2
        /\ Truthy(ArgsAt(line')[2])
        /\ Exists(files, ArgsAt(line')[2]))
           => /\ Questions(trace') # {}
              /\ SubSeq(trace', 3, 4)
                     = <<Pr("File exists: " \o Repr(ArgsAt(line')[2])), Pr("Overwrite?")>>
              /\ \A i \in 1..Max(Questions(trace')) :
                     trace'[i].k \in {"input", "print"}
              /\ \A i \in Questions(trace') \ {Max(Questions(trace'))} :
                     /\ Lower(Strip(trace'[i].a)) \notin {"y", "yes", "n", "no"}
                     /\ trace'[i + 1] = Pr("Please enter y or n.")
                     /\ i + 2 \in Questions(trace')
              /\ Answer(trace') \in {"n", "no"}
                     => /\ op'.name = NoOp
                        /\ Max(Questions(trace')) = Len(trace')
                        /\ files' = files
                        /\ state' = "running"
              /\ Answer(trace') \in {"y", "yes"}
                     => /\ op'.name = "export"
                        /\ Len(trace') > Max(Questions(trace'))]_vars

\* C8: the export to the existing out.pem went on after an undecided
\* answer and a yes.
C8_ExportConfirmed ==
    /\ line = "X 'my key' out.pem"
    /\ Printed(trace, "File exists: 'out.pem'")
    /\ Printed(trace, "Please enter y or n.")
    /\ Answer(trace) = "yes"
    /\ op.name = "export"
    /\ Shows(trace, "spawn")

\* The file a command is told to write: FILE of export and download, the
\* path of put; None when it names none.
Destination(l) ==
    CASE HandlerAt(l) = "export_cmd" /\ Len(ArgsAt(l)) = 2 -> ArgsAt(l)[2]
      [] HandlerAt(l) = "download_cmd" /\ Len(ArgsAt(l)) = 3 -> ArgsAt(l)[3]
      [] HandlerAt(l) = "put_cmd" /\ Len(ArgsAt(l)) = 1 -> expanduser(ArgsAt(l)[1])
      [] OTHER -> None

\* C9: export, download and put write a destination file that exists
\* only after a yes/no confirmation answered with yes.
C9_OverwriteConfirmed ==
    [][(/\ Destination(line') # None
        /\ Exists(files, Destination(line'))
        /\ \E i \in 1..Len(trace') :
               trace'[i].k = "write" /\ trace'[i].s = Destination(line'))
           => /\ Questions(trace') # {}
              /\ Answer(trace') \in {"y", "yes"}]_vars

\* C9: `put out.pem` left the store's contents in out.pem, no question
\* having been asked.
C9_PutOverwrote ==
    /\ line = "put out.pem"
    /\ ret = PyTrue
    /\ "out.pem" \in DOMAIN files /\ files["out.pem"] = files[keystore]
    /\ Questions(trace) = {}

\* C10: a fetch whose copy succeeds makes _store.jks the active store,
\* with the contents of the source file; an ls entered next runs keytool
\* on _store.jks.
C10_FetchSelects ==
    [][/\ (HandlerAt(line') = "fetch_cmd" /\ ret' = PyTrue)
            => /\ keystore' = "_store.jks"
               /\ Exists(files', "_store.jks")
               /\ files'["_store.jks"] = files[expanduser(ArgsAt(line')[1])]
       /\ (/\ HandlerAt(line) = "fetch_cmd" /\ ret = PyTrue
           /\ HandlerAt(line') = "list_cmd" /\ ret' # BadUsage)
            => /\ ~Printed(trace', NOSTORE)
               /\ Shows(trace', "getpass") \/ Shows(trace', "spawn")
               /\ \A i \in 1..Len(trace') :
                      trace'[i].k = "spawn"
                          => OptArg(trace'[i].argv, "-keystore") = "_store.jks"]_vars

\* C10: after `fetch ~/s.jks`, ls ran keytool on _store.jks, which holds
\* what the source holds.
C10_ListedWorkingCopy ==
    /\ line = "ls"
    /\ keystore = WORKINGFILE
    /\ files[WORKINGFILE] = files[SOURCE]
    /\ \E i \in 1..Len(trace) :
           /\ trace[i].k = "spawn"
           /\ OptArg(trace[i].argv, "-keystore") = WORKINGFILE

\* The last line entered was `password` on its own.
PasswordEntered(l) == HandlerAt(l) = "password_cmd" /\ ArgsAt(l) = <<>>

\* C11 as stated: after `password`, the next store command that needs a
\* credential shows the credential prompt again.
C11_PromptsAgain ==
    [][(/\ PasswordEntered(line)
        /\ HandlerAt(line') \in StoreCmds
        /\ Truthy(keystore)
        /\ op'.execret # NoOp)
           => Shows(trace', "getpass")]_vars

\* C11: `password` shows the credential prompt itself and caches what is
\* typed there (None when the prompt is cancelled), starting no process;
\* the next store command that needs a credential shows the prompt only
\* when that cached value is None or empty, and otherwise hands keytool
\* the secret typed at `password`.
C11_PasswordReplaces ==
    [][/\ PasswordEntered(line')
            => /\ Count(trace', "getpass") = 1
               /\ password' = IF PromptEnded(trace', {INTR, EOF}) THEN None
                              ELSE TypedSecret(trace')
               /\ ~Shows(trace', "spawn")
               /\ keystore' = keystore
       /\ (/\ PasswordEntered(line)
           /\ HandlerAt(line') \in StoreCmds
           /\ Truthy(keystore)
           /\ op'.execret # NoOp)
            => /\ Shows(trace', "getpass") <=> ~Truthy(password)
               /\ Truthy(password)
                    => /\ Shows(trace', "spawn")
                       /\ UsesSecret(trace', password)]_vars

\* C11: `password` replaced the secret given at startup by the one typed
\* at its prompt.
C11_SecretReplaced ==
    /\ line = "password"
    /\ PromptEnded(trace, {"pw"})
    /\ password = "pw"
    /\ Truthy(keystore)
    /\ state = "running"

\* The places of COMMANDS at which a handler is registered for the first
\* time, and the n-th of them.
FirstRegistered ==
    {i \in 1..Len(COMMANDS) : \A j \in 1..(i - 1) : COMMANDS[j].f # COMMANDS[i].f}

NthRegistered(n) ==
    CHOOSE i \in FirstRegistered :
        Cardinality({j \in FirstRegistered : j < i}) = n - 1

\* The usage lines of the distinct handlers, each once, in the order of
\* first registration.
HelpListing ==
    "  " \o Join([n \in 1..Cardinality(FirstRegistered)
                     |-> Usage(COMMANDS[NthRegistered(n)].f)], "\n  ")

\* C12: the listing printed by help is the usage line of each distinct
\* registered handler, once each, in the order in which the handlers
\* were first registered, however many names a handler has.
C12_HelpListsEachOnce ==
    (ncmds > 0 /\ HandlerAt(line) = "help_cmd" /\ ArgsAt(line) = <<>>)
        => /\ Len(trace) = 5
           /\ trace[3] = Pr("Commands:")
           /\ trace[4] = Pr(HelpListing)
           /\ \A f \in Handlers :
                  Cardinality({n \in 1..Len(HelpUsages) : HelpUsages[n] = Usage(f)}) = 1

\* C12: help listed 12 handlers registered under 18 names.
C12_HelpListed ==
    /\ line = "help"
    /\ Printed(trace, "Commands:")
    /\ Printed(trace, HelpListing)
    /\ Cardinality(FirstRegistered) = 12
    /\ Len(COMMANDS) = 18

\* The command line was echoed (echo_command prints it in green).
Echoed(tr) ==
    \E i \in 1..Len(tr) :
        /\ tr[i].k = "print"
        /\ Len(tr[i].s) >= Len(in_green(""))
        /\ SubSeq(tr[i].s, 1, Len(ESC) + 4) = ESC \o "[92m"

\* C13: KeyTool.rename and KeyTool.export on a handle whose alias is empty
\* raise the ValueError of require_alias before the command line is
\* echoed, before the credential prompt and before keytool is started;
\* with an alias they go on to KeyTool.execute, which (a store being
\* selected) echoes the command line and, unless the credential prompt is
\* cancelled, starts keytool.
C13_RequireAlias ==
    (ncmds > 0 /\ op.name \in {"rename", "export"})
        => IF ~Truthy(ArgsAt(line)[1])
           THEN /\ exc = "ValueError"
                /\ state = "crashed"
                /\ op.execret = NoOp
                /\ ~Echoed(trace)
                /\ ~Shows(trace, "getpass")
                /\ ~Shows(trace, "spawn")
           ELSE /\ exc = ""
                /\ op.execret # NoOp
                /\ Truthy(keystore) => Echoed(trace)
                /\ (Truthy(keystore) /\ ~PromptEnded(trace, {INTR, EOF}))
                       => \E i \in 1..Len(trace) :
                              /\ trace[i].k = "spawn"
                              /\ trace[i].argv[2]
                                     = (IF op.name = "rename" THEN "-changealias"
                                        ELSE "-exportcert")

\* C13: `rename '' b` on a selected store raised before anything was
\* echoed.
C13_RaisedFirst ==
    /\ line = "rename '' b"
    /\ Truthy(keystore)
    /\ op.name = "rename"
    /\ exc = "ValueError"
    /\ ~Echoed(trace)

\* The tokens of the lines, <<>> for a line that has none or cannot be
\* split; and the first token in lower case.
TokenTable ==
    [l \in Lines |-> IF SplitTable[Strip(l)].err THEN <<>>
                     ELSE SplitTable[Strip(l)].toks]

Tokens(l) == TokenTable[l]

NameTable ==
    [l \in Lines |-> IF TokenTable[l] = <<>> THEN "" ELSE Lower(TokenTable[l][1])]

\* The pairs of lines that differ in the letter case of the first token
\* only.
CasePairs ==
    {p \in Lines \X Lines :
        /\ NameTable[p[1]] # "" /\ NameTable[p[1]] = NameTable[p[2]]
        /\ TokenTable[p[1]][1] # TokenTable[p[2]][1]
        /\ Tail(TokenTable[p[1]]) = Tail(TokenTable[p[2]])}

\* The lines whose first token, in lower case, is no registered name.
Unregistered ==
    {l \in Lines :
        /\ NameTable[l] # ""
        /\ NameTable[l] \notin {COMMANDS[i].name : i \in 1..Len(COMMANDS)}}

\* What menu did apart from reading the line.
Effect(r) == [r EXCEPT !.tr = Tail(@)]

\* C14: from any state in which a line is read, two lines that differ only in the letter case of
\* the first token reach the same handler with the same arguments, as
\* typed, and do the same; a line whose first token is no registered name
\* in lower case calls no handler and prints "Command not recognised."
\* and the help suggestion.
C14_CaseInsensitive ==
    /\ Running => \A p \in CasePairs :
           /\ HandlerTable[p[1]] = HandlerTable[p[2]]
           /\ HandlerTable[p[1]] \in Handlers
           /\ ArgsTable[p[1]] = Tail(Tokens(p[2]))
           /\ \A io \in BOOLEAN :
                  Effect(menu(St, p[1], [NoEnv EXCEPT !.ioerr = io]))
                      = Effect(menu(St, p[2], [NoEnv EXCEPT !.ioerr = io]))
    /\ (ncmds > 0 /\ line \in Unregistered)
           => /\ Tail(trace) = <<Pr(""), Pr("Command not recognised."),
                                 Pr("Type \"help\" for instructions.")>>
              /\ op.name = NoOp
              /\ ret = None /\ exc = ""
              /\ state = "running"

\* C14: `FETCH K.jks` reached fetch_cmd with the argument K.jks as typed
\* (no such file: the copy failed), as `fetch K.jks` does.
C14_UpperCaseToken ==
    /\ <<"fetch K.jks", "FETCH K.jks">> \in CasePairs
    /\ line = "FETCH K.jks"
    /\ ret = PyFalse
    /\ Printed(trace, in_green("copyfile('K.jks', '_store.jks')"))

\* The places of tr at which openssl was started with subcommand sub.
Started(tr, sub) ==
    {i \in 1..Len(tr) :
        tr[i].k = "spawn" /\ tr[i].argv[1] = "openssl" /\ tr[i].argv[2] = sub}

\* The places of tr at which "Output to ..." was printed.
OutputTo(tr) ==
    {i \in 1..Len(tr) :
        tr[i].k = "print" /\ Len(tr[i].s) >= 10 /\ SubSeq(tr[i].s, 1, 10) = "Output to "}

\* C15: in download, openssl x509 is started only after openssl s_client
\* has exited with 0, and "Output to FILE" is printed only after both
\* have exited with 0; each is started at most once.
C15_StagesInOrder ==
    (ncmds > 0 /\ HandlerAt(line) = "download_cmd")
        => /\ Cardinality(Started(trace, "s_client")) <= 1
           /\ Cardinality(Started(trace, "x509")) <= 1
           /\ \A i \in Started(trace, "x509") :
                  \E j \in Started(trace, "s_client") : j < i /\ trace[j].rc = 0
           /\ \A k \in OutputTo(trace) :
                  /\ \E j \in Started(trace, "s_client") : j < k /\ trace[j].rc = 0
                  /\ \E i \in Started(trace, "x509") : i < k /\ trace[i].rc = 0
           /\ \A i \in 1..Len(trace) : trace[i].k = "spawn" => trace[i].tool = "openssl"

\* C15: `download h 443 out.pem` started both tools, printed "Output to
\* out.pem" and left the certificate in out.pem.
C15_Downloaded ==
    /\ line = "download h 443 out.pem"
    /\ Started(trace, "s_client") # {} /\ Started(trace, "x509") # {}
    /\ Printed(trace, "Output to out.pem")
    /\ files["out.pem"] = PEM

\* C16: in a store command that shows the credential prompt, "Cancelled."
\* is printed and keytool not started exactly when the prompt was ended by
\* an interrupt or end-of-input; whatever is typed, the empty secret
\* included, is handed to keytool after -storepass.
C16_EmptySecretIsNoCancel ==
    (ncmds > 0 /\ HandlerAt(line) \in StoreCmds /\ Shows(trace, "getpass"))
        => /\ Count(trace, "getpass") = 1
           /\ Printed(trace, "Cancelled.") <=> PromptEnded(trace, {INTR, EOF})
           /\ op.execret = None <=> PromptEnded(trace, {INTR, EOF})
           /\ ~PromptEnded(trace, {INTR, EOF})
                  => /\ Count(trace, "spawn") = 1
                     /\ UsesSecret(trace, TypedSecret(trace))
                     /\ password = TypedSecret(trace)

\* C16: `add a c.pem` with the empty secret typed started keytool with
\* -storepass '' and did not print "Cancelled.".
C16_EmptySecretUsed ==
    /\ line = "add a c.pem"
    /\ PromptEnded(trace, {""})
    /\ ~Printed(trace, "Cancelled.")
    /\ \E i \in 1..Len(trace) :
           /\ trace[i].k = "spawn"
           /\ trace[i].argv[Len(trace[i].argv) - 1] = "-storepass"
           /\ trace[i].argv[Len(trace[i].argv)] = ""

\* Line l reaches no handler: an interrupt at the main prompt, a line
\* that is empty once stripped, or an unregistered first token.
NoHandler(l) == l = INTR \/ (l \in Lines /\ Strip(l) = "") \/ l \in Unregistered

\* C17: an input that reaches no handler leaves the loop running, the
\* store path and the cached secret as they were, and starts no process.
C17_NoHandlerNoEffect ==
    [][NoHandler(line')
           => /\ state' = "running"
              /\ keystore' = keystore
              /\ password' = password
              /\ alias' = alias
              /\ files' = files
              /\ ~Shows(trace', "spawn")
              /\ ~Shows(trace', "getpass")
              /\ op'.name = NoOp
              /\ ret' = None /\ exc' = ""]_vars

\* C17: an interrupt at the main prompt, as the second input, left the
\* loop running with the store and the secret given at startup.
C17_StillRunning ==
    /\ ncmds = 2
    /\ line = INTR
    /\ state = "running"
    /\ keystore = "k.jks"
    /\ password = "s3"

\* The place of flag in argv, 0 when it is not there.
FlagAt(argv, flag) ==
    IF \E i \in 1..Len(argv) : argv[i] = flag
    THEN CHOOSE i \in 1..Len(argv) : argv[i] = flag /\ \A j \in 1..(i - 1) : argv[j] # flag
    ELSE 0

\* argv is keytool <flags> -keystore ks [-alias al] -storepass pw, with
\* -alias al there exactly when al is not None.
Conventional(argv, ks, al, pw) ==
    /\ argv[1] = "keytool"
    /\ FlagAt(argv, "-keystore") > 2
    /\ SubSeq(argv, FlagAt(argv, "-keystore"), Len(argv))
           = <<"-keystore", ks>>
                 \o (IF al # None THEN <<"-alias", al>> ELSE <<>>)
                 \o <<"-storepass", pw>>

\* The alias an alias-scoped command line gives, None for other lines.
AliasGiven(l) ==
    IF HandlerAt(l) \in AliasCmds /\ ArgsAt(l) # <<>> THEN ArgsAt(l)[1] ELSE None

\* C18: every keytool process is started as keytool <operation flags>
\* -keystore <active store> [-alias <alias>] -storepass <cached secret>,
\* -alias being there for import, delete, export and rename with the
\* alias the command was given, the empty one included.
C18_CallingConvention ==
    (ncmds > 0 /\ HandlerAt(line) \in StoreCmds)
        => \A i \in 1..Len(trace) :
               trace[i].k = "spawn"
                   => Conventional(trace[i].argv, keystore, AliasGiven(line),
                                   password)

\* C18: `delete ''` started keytool -delete with no -alias at all.
C18_AliasDropped ==
    /\ line = "delete ''"
    /\ \E i \in 1..Len(trace) :
           /\ trace[i].k = "spawn"
           /\ trace[i].argv[2] = "-delete"
           /\ FlagAt(trace[i].argv, "-alias") = 0

\* The command copied a file to path p.
Copied(tr, p) ==
    \E i \in 1..Len(tr) : tr[i].k = "write" /\ tr[i].a = "copyfile" /\ tr[i].s = p

\* C19: the store path of the main handle changes only in a fetch whose
\* copy succeeded, which makes it _store.jks; a fetch whose copy fails
\* and every other command leave it as it was; the alias of the main
\* handle is None throughout.
C19_OnlyFetchSelects ==
    [][/\ alias = None /\ alias' = None
       /\ keystore' # keystore
            => /\ HandlerAt(line') = "fetch_cmd"
               /\ ret' = PyTrue
               /\ Copied(trace', WORKINGFILE)
               /\ keystore' = WORKINGFILE
       /\ (HandlerAt(line') = "fetch_cmd" /\ ~Copied(trace', WORKINGFILE))
            => keystore' = keystore
       /\ HandlerAt(line') # "fetch_cmd" => keystore' = keystore]_vars

\* C19: `rename a b` ran keytool with -alias a on k.jks, and the main
\* handle still has k.jks and no alias.
C19_MainHandleKept ==
    /\ line = "rename a b"
    /\ keystore = "k.jks"
    /\ alias = None
    /\ \E i \in 1..Len(trace) :
           trace[i].k = "spawn" /\ OptArg(trace[i].argv, "-alias") = "a"

\* t occurs in s.
HasSub(s, t) ==
    \E i \in 1..(Len(s) - Len(t) + 1) : SubSeq(s, i, i + Len(t) - 1) = t

IsEcho(ev) ==
    ev.k = "print" /\ Len(ev.s) >= Len(in_green(""))
                   /\ SubSeq(ev.s, 1, Len(ESC) + 4) = ESC \o "[92m"

\* What a command echoed, in order.
Echoes(tr) == SelectSeq(tr, IsEcho)

\* Every confirmation answered with yes, the credential prompt with resp.
Yes(resp) == [NoEnv EXCEPT !.answers = <<"y">>, !.resp = resp]

\* The lines of the store commands.
StoreLines == {l \in Lines : HandlerTable[l] \in StoreCmds}

\* C20: in every store command the command line is echoed before the
\* credential prompt and before keytool starts; what is echoed is the
\* argument list keytool is started with, without -storepass and the
\* secret, which do not occur in the echo; and from any state in which a
\* line is read the same line echoes the same with any secret, cached or
\* typed.
C20_EchoWithoutSecret ==
    /\ (ncmds > 0 /\ HandlerAt(line) \in StoreCmds)
           => /\ \A i \in 1..Len(trace) :
                     trace[i].k \in {"getpass", "spawn"}
                         => \E j \in 1..(i - 1) : IsEcho(trace[j])
              /\ \A i \in 1..Len(trace) :
                     trace[i].k = "spawn"
                         => /\ Len(trace[i].argv) > 2
                            /\ SubSeq(trace[i].argv, Len(trace[i].argv) - 1,
                                      Len(trace[i].argv)) = <<"-storepass", password>>
                            /\ Echoes(trace)
                                   = <<Pr(in_green(JoinArgs(
                                         SubSeq(trace[i].argv, 1,
                                                Len(trace[i].argv) - 2), 1)))>>
              /\ \A j \in 1..Len(trace) :
                     IsEcho(trace[j]) => ~HasSub(trace[j].s, "-storepass")
    /\ Running => \A l \in StoreLines :
           /\ Echoes(menu([St EXCEPT !.password = "pw"], l, Yes(EOF)).tr)
                  = Echoes(menu([St EXCEPT !.password = "s3"], l, Yes(EOF)).tr)
           /\ Echoes(menu([St EXCEPT !.password = None], l, Yes("pw")).tr)
                  = Echoes(menu([St EXCEPT !.password = "s3"], l, Yes(EOF)).tr)
           /\ Echoes(menu([St EXCEPT !.password = None], l, Yes("")).tr)
                  = Echoes(menu([St EXCEPT !.password = "s3"], l, Yes(EOF)).tr)

\* C20: `ll` echoed `keytool -list -v -keystore k.jks`, then asked for
\* the secret, then started keytool with -storepass pw.
C20_EchoedFirst ==
    /\ line = "ll"
    /\ Len(trace) >= 5
    /\ trace[3] = Pr(in_green("keytool -list -v -keystore k.jks"))
    /\ trace[4].k = "getpass" /\ trace[4].a = "pw"
    /\ trace[5].k = "spawn"
    /\ trace[5].argv = <<"keytool", "-list", "-v", "-keystore", "k.jks",
                         "-storepass", "pw">>

====
